---------------------------- MODULE Spec2Model ----------------------------
(***************************************************************************)
(* Model of the diagnostic reasoning engine of the Hybrid Troubleshooting  *)
(* System: the Rule Store (src/src/knowledge_base.py, KnowledgeBase) and   *)
(* the Inference Engine (src/src/inference_engine.py, InferenceEngine).    *)
(*                                                                         *)
(* Python values are tagged records [t, n, s]: t is the Python type, n the *)
(* numeric value of a bool or an int, s the text of a str.  Floats that    *)
(* the code computes (match score, final confidence) are exact fractions   *)
(* [num, den]; for rules of at most 8 conditions and confidences written   *)
(* in hundredths, the IEEE comparisons the code makes (>= threshold, sort  *)
(* key order) agree with the exact ones.                                   *)
(***************************************************************************)
EXTENDS Integers, Sequences, FiniteSets, TLC

VARIABLES
    kb,                 \* KnowledgeBase: computer_rules, mobile_rules, all_rules
    working_memory,     \* InferenceEngine.working_memory (dict key -> value)
    inference_trace,    \* InferenceEngine.inference_trace (list of entries)
    fired_rules,        \* InferenceEngine.fired_rules (list of rules)
    result,             \* what the last diagnose call returned, as its caller holds it
    prev,               \* result of the directly preceding diagnose call when it had the same arguments
    last_call,          \* the last diagnose call, while only reset has been called since
    ret,                \* return value of the last forward_chain / backward_chain call
    query,              \* last Rule Store query (match_conditions, find_matching_rules) and its value
    sessions,           \* two further engines over the same store, and their diagnose calls in progress
    context             \* TroubleshootingChatbot.context (ConversationContext) of a chatbot with the engine above

vars == <<kb, working_memory, inference_trace, fired_rules, result, prev, last_call, ret, query,
          sessions, context>>

engine_vars == <<working_memory, inference_trace, fired_rules, result, prev, last_call, ret>>

-----------------------------------------------------------------------------
(* Python values *)

PyBool(b) == [t |-> "bool", n |-> IF b THEN 1 ELSE 0, s |-> ""]
PyInt(i) == [t |-> "int", n |-> i, s |-> ""]
PyStr(x) == [t |-> "str", n |-> 0, s |-> x]
PyNone == [t |-> "none", n |-> 0, s |-> ""]

\* a == b of Python: True == 1 and False == 0 hold, a str equals only an equal str
PyEq(a, b) ==
    IF a.t = "str" \/ b.t = "str" THEN a.t = b.t /\ a.s = b.s
    ELSE IF a.t = "none" \/ b.t = "none" THEN a.t = b.t
    ELSE a.n = b.n

\* str.lower() on the vocabulary of the model
Lower(x) ==
    CASE x = "Yes" -> "yes"
      [] x = "True" -> "true"
      [] x = "False" -> "false"
      [] x = "Loud" -> "loud"
      [] x = "Computer" -> "computer"
      [] x = "Mobile" -> "mobile"
      [] x = "None" -> "none"
      [] x = "Dust" -> "dust"
      [] x = "Fan" -> "fan"
      [] x = "Failing" -> "failing"
      [] x = "Old" -> "old"
      [] x = "Blocked" -> "blocked"
      [] x = "Unknown" -> "unknown"
      [] x = "High" -> "high"
      [] x = "CPU" -> "cpu"
      [] x = "Heavy" -> "heavy"
      [] x = "Battery" -> "battery"
      [] x = "Start Over" -> "start over"
      [] x = " Start Over " -> " start over "
      [] OTHER -> x

\* str(v) of Python
Str(v) ==
    CASE v.t = "str" -> v.s
      [] v.t = "bool" -> IF v.n = 1 THEN "True" ELSE "False"
      [] v.t = "int" -> IF v.n = 0 THEN "0" ELSE IF v.n = 1 THEN "1" ELSE "2"
      [] OTHER -> "None"

\* truth value of an optional str argument (None and "" are falsy)
Truthy(v) == v.t = "str" /\ v.s # ""

-----------------------------------------------------------------------------
(* Fractions standing for the floats of the code *)

Frac(a, b) == [num |-> a, den |-> b]
FracGE(x, y) == x.num * y.den >= y.num * x.den
FracEq(x, y) == x.num * y.den = y.num * x.den
FracMul(x, y) == [num |-> x.num * y.num, den |-> x.den * y.den]
\* a threshold or a confidence written in hundredths
Hundredths(c) == Frac(c, 100)


-----------------------------------------------------------------------------
(* Rules and catalogs.  A rule record of the JSON rule files: conditions   *)
(* is the ordered mapping key -> expected value; has_id / has_conf say     *)
(* whether the record carries the field at all (the loader takes the       *)
(* "rules" list of each file as it is).                                    *)

Cond(k, e) == [key |-> k, expected |-> e]

Rule(i, cat, conds, cause, sols, conf) ==
    [has_id |-> TRUE, id |-> i, category |-> cat, conditions |-> conds,
     cause |-> cause, solutions |-> sols, has_conf |-> TRUE, confidence |-> conf]

\* the rules a computer_rules.json may list, in file order
ComputerMaster ==
    << Rule("COMP_HEAT_001", "overheating",
            <<Cond("device", PyStr("computer")), Cond("fan_noise", PyBool(TRUE)),
              Cond("hot_surface", PyBool(TRUE))>>,
            <<"Dust", "accumulation">>, <<"Clean dust from vents and fans">>, 90),
       Rule("COMP_HEAT_002", "overheating",
            <<Cond("device", PyStr("computer")), Cond("fan_noise", PyStr("loud"))>>,
            <<"Failing", "Fan">>, <<"Replace the fan">>, 60),
       Rule("COMP_HEAT_003", "overheating",
            <<Cond("device", PyStr("computer")), Cond("hot_surface", PyBool(TRUE))>>,
            <<"Old", "thermal", "paste">>, <<"Replace thermal paste", "Check heatsink">>, 95),
       Rule("COMP_HEAT_004", "overheating",
            <<Cond("hot_surface", PyBool(TRUE)), Cond("device", PyStr("computer"))>>,
            <<"Blocked", "vents">>, <<"Clear the vents">>, 50),
       Rule("COMP_HEAT_005", "overheating", <<>>,
            <<"Unknown", "fault">>, <<"Consult a technician">>, 100),
       [Rule("COMP_SLOW_001", "slow_performance",
            <<Cond("device", PyStr("computer")), Cond("fan_noise", PyBool(TRUE))>>,
            <<"High", "CPU", "usage">>, <<"Close unused applications">>, 0)
          EXCEPT !.has_conf = FALSE],
       [Rule("", "overheating",
            <<Cond("device", PyStr("computer")), Cond("hot_surface", PyBool(TRUE))>>,
            <<"dust", "in", "heatsink">>, <<"Clean the heatsink">>, 50)
          EXCEPT !.has_id = FALSE] >>

\* the rules a mobile_rules.json may list, in file order
MobileMaster ==
    << Rule("MOB_HEAT_001", "overheating",
            <<Cond("device", PyStr("mobile")), Cond("hot_surface", PyBool(TRUE))>>,
            <<"Heavy", "app", "usage">>, <<"Close background applications">>, 85),
       Rule("MOB_BATT_001", "battery_issues",
            <<Cond("device", PyStr("mobile")), Cond("fan_noise", PyInt(1))>>,
            <<"Battery", "degradation">>, <<"Replace the battery">>, 88) >>

\* KnowledgeBase._load_rules: the two lists as read, and their concatenation
LoadRules(computer, mobile) ==
    [computer_rules |-> computer, mobile_rules |-> mobile,
     all_rules |-> computer \o mobile]

\* the rule files the store may be constructed over: the first n computer rules,
\* for every n, and the mobile rules
Catalogs ==
    { LoadRules(SubSeq(ComputerMaster, 1, n), SubSeq(MobileMaster, 1, m)) :
        n \in 0 .. Len(ComputerMaster), m \in {Len(MobileMaster)} }

-----------------------------------------------------------------------------
(* KnowledgeBase *)

\* get_rules_by_device comparing the device type as written
get_rules_by_device_exact(device_type) ==
    IF device_type = "computer" THEN kb.computer_rules
    ELSE IF device_type = "mobile" THEN kb.mobile_rules
    ELSE kb.all_rules

\* StoreAfterCall with all_rules reordered in place
StoreAfterCall_reordered(store) ==
    [store EXCEPT !.all_rules = [i \in 1 .. Len(@) |-> @[Len(@) + 1 - i]]]

\* the store after a call of the engine or a query of the store: no statement of
\* either assigns to computer_rules, mobile_rules or all_rules, changes one of the
\* lists in place or writes a field of a rule (find_matching_rules sorts matches,
\* its own list; the engine appends the rules it fires to its own fired_rules)
StoreAfterCall(store) == store

\* get_rules_by_device(device_type), device_type a str
get_rules_by_device(device_type) ==
    IF Lower(device_type) = "computer" THEN kb.computer_rules
    ELSE IF Lower(device_type) = "mobile" THEN kb.mobile_rules
    ELSE kb.all_rules

\* get_rules_by_category(category, device_type): category a str, device_type optional
get_rules_by_category(category, device_type) ==
    LET rules == IF Truthy(device_type) THEN get_rules_by_device(device_type.s)
                 ELSE kb.all_rules
    IN SelectSeq(rules, LAMBDA rule : rule.category = category)

\* the type-driven test of one condition inside match_conditions
CondMatched(cond, user_symptoms) ==
    /\ cond.key \in DOMAIN user_symptoms
    /\ LET user_value == user_symptoms[cond.key]
           expected_value == cond.expected
       IN IF expected_value.t = "bool" THEN PyEq(user_value, expected_value)
          ELSE IF expected_value.t = "str"
               THEN Lower(Str(user_value)) = Lower(expected_value.s)
          ELSE PyEq(user_value, expected_value)

Keys(conds) == [i \in 1 .. Len(conds) |-> conds[i].key]

\* MatchResult with a rule without conditions taken as trivially satisfied
MatchResult_vacuous(conditions, matched, unmatched) ==
    [match_score |-> IF Len(conditions) = 0 THEN Frac(1, 1)
                     ELSE Frac(Len(matched), Len(conditions)),
     matched |-> matched,
     unmatched |-> unmatched]

\* MatchResult scoring the share of unmatched conditions
MatchResult_unmatched_share(conditions, matched, unmatched) ==
    [match_score |-> IF Len(conditions) = 0 THEN Frac(0, 1)
                     ELSE Frac(Len(unmatched), Len(conditions)),
     matched |-> matched,
     unmatched |-> unmatched]

\* the score and the tuple match_conditions returns, from its two lists
MatchResult(conditions, matched, unmatched) ==
    [match_score |-> IF Len(conditions) = 0 THEN Frac(0, 1)
                     ELSE Frac(Len(matched), Len(conditions)),
     matched |-> matched,
     unmatched |-> unmatched]

\* match_conditions skipping the conditions whose key the user did not provide
match_conditions_skip_absent(rule, user_symptoms) ==
    MatchResult(rule.conditions,
                Keys(SelectSeq(rule.conditions, LAMBDA c : CondMatched(c, user_symptoms))),
                Keys(SelectSeq(rule.conditions,
                               LAMBDA c : /\ c.key \in DOMAIN user_symptoms
                                          /\ ~CondMatched(c, user_symptoms))))

\* match_conditions(rule, user_symptoms) -> (match_score, matched, unmatched)
match_conditions(rule, user_symptoms) ==
    MatchResult(rule.conditions,
                Keys(SelectSeq(rule.conditions, LAMBDA c : CondMatched(c, user_symptoms))),
                Keys(SelectSeq(rule.conditions, LAMBDA c : ~CondMatched(c, user_symptoms))))

\* the sort key of find_matching_rules: (match_score, rule.get("confidence", 0))
SortConfidence(rule) == IF rule.has_conf THEN rule.confidence ELSE 0

\* KeyGreater with the match score as the whole sort key
KeyGreater_score_only(a, b) == ~FracGE(b.match_score, a.match_score)

\* tuple order of two sort keys: a's key strictly greater than b's
KeyGreater(a, b) ==
    \/ ~FracGE(b.match_score, a.match_score)
    \/ /\ FracEq(a.match_score, b.match_score)
       /\ SortConfidence(a.rule) > SortConfidence(b.rule)

\* Places of a sort that is not stable: entries of equal key come out reversed
Places_ties_reversed(matches) ==
    [i \in 1 .. Len(matches) |->
        1 + Cardinality({j \in 1 .. Len(matches) : KeyGreater(matches[j], matches[i])})
          + Cardinality({j \in i + 1 .. Len(matches) :
                            ~KeyGreater(matches[i], matches[j])
                            /\ ~KeyGreater(matches[j], matches[i])})]

\* where the stable descending sort puts each entry: behind every entry of greater
\* key and every earlier entry of equal key
Places(matches) ==
    [i \in 1 .. Len(matches) |->
        1 + Cardinality({j \in 1 .. Len(matches) : KeyGreater(matches[j], matches[i])})
          + Cardinality({j \in 1 .. i - 1 : ~KeyGreater(matches[i], matches[j])
                                            /\ ~KeyGreater(matches[j], matches[i])})]

Arrange(matches, place) ==
    [p \in 1 .. Len(matches) |-> matches[CHOOSE i \in 1 .. Len(matches) : place[i] = p]]

\* matches.sort(key=lambda x: (x["match_score"], x["rule"].get("confidence", 0)),
\* reverse=True): stable, highest key first
SortMatches(matches) == Arrange(matches, Places(matches))

\* the entry find_matching_rules appends for a rule, from match_conditions' tuple
MatchEntry(rule, m) ==
    [rule |-> rule, match_score |-> m.match_score,
     matched_conditions |-> m.matched, unmatched_conditions |-> m.unmatched]

\* Admitted keeping only the rules whose score exceeds the minimum
Admitted_above(rules, user_symptoms, min_match_score) ==
    SelectSeq([i \in 1 .. Len(rules) |->
                  MatchEntry(rules[i], match_conditions(rules[i], user_symptoms))],
              LAMBDA e : ~FracGE(Hundredths(min_match_score), e.match_score))

\* find_matching_rules' loop: the entries of the rules whose score reaches the minimum
Admitted(rules, user_symptoms, min_match_score) ==
    SelectSeq([i \in 1 .. Len(rules) |->
                  MatchEntry(rules[i], match_conditions(rules[i], user_symptoms))],
              LAMBDA e : FracGE(e.match_score, Hundredths(min_match_score)))

\* CandidatePool with the device filter taking precedence over the category
CandidatePool_device_first(device_type, category) ==
    IF Truthy(device_type) THEN get_rules_by_device(device_type.s)
    ELSE IF Truthy(category) THEN get_rules_by_category(category.s, device_type)
    ELSE kb.all_rules

\* the candidate pool of find_matching_rules
CandidatePool(device_type, category) ==
    IF Truthy(category) THEN get_rules_by_category(category.s, device_type)
    ELSE IF Truthy(device_type) THEN get_rules_by_device(device_type.s)
    ELSE kb.all_rules

\* find_matching_rules(user_symptoms, device_type, category, min_match_score)
find_matching_rules(user_symptoms, device_type, category, min_match_score) ==
    SortMatches(Admitted(CandidatePool(device_type, category), user_symptoms,
                         min_match_score))

-----------------------------------------------------------------------------
(* InferenceEngine.  An engine state is the record of the three fields     *)
(* reset() assigns; each method is an operator from engine state (and      *)
(* arguments) to the new engine state and the value returned or the        *)
(* exception raised.                                                       *)

EmptyDict == [k \in {} |-> PyNone]

Engine(wm, trace, fired) ==
    [working_memory |-> wm, inference_trace |-> trace, fired_rules |-> fired]

\* one entry of inference_trace; conf is the number formatted into it
TraceEntry(kind, key, text, conf) ==
    [kind |-> kind, key |-> key, text |-> text, conf |-> conf, items |-> <<>>]

\* an entry that formats a text or a list of texts (each a list of words)
TraceItems(kind, key, items) ==
    [kind |-> kind, key |-> key, text |-> "", conf |-> Frac(0, 1), items |-> items]

\* InferenceEngine.__init__
NewEngine == Engine(EmptyDict, <<>>, <<>>)

\* reset leaving the working memory as it is
reset_keeps_memory(e) == Engine(e.working_memory, <<>>, <<>>)

\* reset leaving the inference trace as it is
reset_keeps_trace(e) == Engine(EmptyDict, e.inference_trace, <<>>)

\* InferenceEngine.reset
reset(e) == Engine(EmptyDict, <<>>, <<>>)

\* InferenceEngine.add_fact(key, value)
add_fact(e, key, value) ==
    [e EXCEPT
       !.working_memory = [k \in DOMAIN e.working_memory \cup {key} |->
                              IF k = key THEN value ELSE e.working_memory[k]],
       !.inference_trace = Append(e.inference_trace,
                              TraceEntry("Added fact", key, Str(value), Frac(0, 1)))]

RECURSIVE add_facts(_, _)
\* InferenceEngine.add_facts(facts): facts an ordered mapping, a list of [key, value]
add_facts(e, facts) ==
    IF facts = <<>> THEN e
    ELSE add_facts(add_fact(e, Head(facts).key, Head(facts).value), Tail(facts))

\* rule.get("confidence", 0.8) of forward_chain
RuleConfidence(rule) == IF rule.has_conf THEN rule.confidence ELSE 80

\* InferenceEngine._generate_explanation(rule, matched_conditions)
generate_explanation(e, rule, matched_conditions) ==
    LET conditions_text ==
            [i \in 1 .. Len(matched_conditions) |->
                [key |-> matched_conditions[i],
                 text |-> IF matched_conditions[i] \in DOMAIN e.working_memory
                          THEN Str(e.working_memory[matched_conditions[i]])
                          ELSE "unknown"]]
    IN [kind |-> IF conditions_text # <<>> THEN "concluded" ELSE "potential issue",
        cause |-> rule.cause,
        conditions_text |-> conditions_text]

\* final_confidence taken from the rule's confidence alone
FinalConfidence_authored(match) == Hundredths(RuleConfidence(match.rule))

\* final_confidence = match_score * rule_confidence of forward_chain's loop
FinalConfidence(match) ==
    FracMul(match.match_score, Hundredths(RuleConfidence(match.rule)))

\* the diagnosis dict forward_chain builds for a fired rule
Diagnosis(e, match) ==
    [rule_id |-> PyStr(match.rule.id),
     category |-> match.rule.category,
     cause |-> match.rule.cause,
     solutions |-> match.rule.solutions,
     confidence |-> FinalConfidence(match),
     matched_conditions |-> match.matched_conditions,
     explanation |-> generate_explanation(e, match.rule, match.matched_conditions)]

\* Firing on the match score alone, the rule's confidence left out
Firing_score_only(matches, min_confidence) ==
    SelectSeq(matches, LAMBDA m : FracGE(m.match_score, Hundredths(min_confidence)))

\* the matches forward_chain's loop fires: final confidence reaches min_confidence
Firing(matches, min_confidence) ==
    SelectSeq(matches, LAMBDA m : FracGE(FinalConfidence(m), Hundredths(min_confidence)))

\* position of the first fired rule without an id (rule['id'] raises KeyError), or 0
FirstNoId(firing) ==
    IF \A i \in 1 .. Len(firing) : firing[i].rule.has_id THEN 0
    ELSE CHOOSE i \in 1 .. Len(firing) :
            ~firing[i].rule.has_id /\ \A j \in 1 .. i - 1 : firing[j].rule.has_id

\* forward_chain's first statement: the trace entry that it starts
StartChain(e) ==
    [e EXCEPT !.inference_trace =
        Append(@, TraceEntry("Starting Forward Chaining", "", "", Frac(0, 1)))]

\* forward_chain's loop and return: the rules before position stop (all when
\* stop = 0) are fired and diagnosed; the rule at stop is appended to fired_rules
\* and then raises
Fire(e, firing, stop) ==
    [engine |->
       Engine(e.working_memory,
              e.inference_trace
                \o [i \in 1 .. (IF stop = 0 THEN Len(firing) ELSE stop - 1) |->
                      TraceEntry("Fired rule", firing[i].rule.id, "",
                                 FinalConfidence(firing[i]))]
                \o (IF stop # 0 THEN <<>>
                    ELSE <<TraceEntry("Forward chaining complete", "", "",
                                      Frac(Len(firing), 1))>>),
              e.fired_rules
                \o [i \in 1 .. (IF stop = 0 THEN Len(firing) ELSE stop) |-> firing[i].rule]),
     diagnoses |-> [i \in 1 .. (IF stop = 0 THEN Len(firing) ELSE stop - 1) |->
                       Diagnosis(e, firing[i])],
     raised |-> stop # 0]

FireAll(e, firing) == Fire(e, firing, FirstNoId(firing))

\* InferenceEngine.forward_chain(device_type, category, min_confidence)
forward_chain(e, device_type, category, min_confidence) ==
    FireAll(StartChain(e),
            Firing(find_matching_rules(e.working_memory, device_type, category,
                                       min_confidence),
                   min_confidence))

\* _get_general_solutions with an empty list for a category it does not list
get_general_solutions_no_default(category) ==
    CASE category = "overheating" ->
           <<"Ensure proper ventilation around the device",
             "Clean dust from vents and fans">>
      [] category = "battery_issues" ->
           <<"Check battery health in settings", "Reduce screen brightness">>
      [] OTHER -> <<>>

\* InferenceEngine._get_general_solutions(category, device_type)
get_general_solutions(category) ==
    CASE category = "overheating" ->
           <<"Ensure proper ventilation around the device",
             "Clean dust from vents and fans",
             "Avoid using in direct sunlight or hot environments",
             "Consider replacing thermal paste (for computers)">>
      [] category = "slow_performance" ->
           <<"Close unused applications", "Restart the device",
             "Check for available updates", "Free up storage space", "Scan for malware">>
      [] category = "battery_issues" ->
           <<"Check battery health in settings", "Reduce screen brightness",
             "Close background applications", "Use original charger",
             "Consider battery replacement if old">>
      [] category = "network_issues" ->
           <<"Toggle airplane mode on and off", "Restart the router/modem",
             "Forget and reconnect to network", "Update network drivers",
             "Check for service outages">>
      [] category = "startup_failure" ->
           <<"Perform a hard reset", "Check power connections",
             "Try booting in safe mode", "Check for recent hardware changes">>
      [] category = "screen_problems" ->
           <<"Restart the device", "Check display connections",
             "Adjust display settings", "Update display drivers">>
      [] category = "storage_issues" ->
           <<"Delete unnecessary files", "Clear app caches",
             "Move files to cloud storage", "Check for disk errors">>
      [] category = "audio_problems" ->
           <<"Check volume settings", "Ensure correct output device is selected",
             "Update audio drivers", "Test with different audio source">>
      [] category = "app_crashes" ->
           <<"Update the application", "Clear app cache and data",
             "Reinstall the application", "Check for system updates">>
      [] category = "hardware_failure" ->
           <<"Restart the device", "Check all connections",
             "Run hardware diagnostics", "Consult a professional technician">>
      [] OTHER -> <<"Restart the device and try again", "Consult technical support">>

\* SuccessResult with every further diagnosis as an alternative
SuccessResult_all_alternatives(e, diagnoses) ==
    LET best == diagnoses[1]
    IN [success |-> TRUE,
        diagnosis |-> [cause |-> best.cause,
                       category |-> best.category,
                       confidence |-> best.confidence,
                       solutions |-> best.solutions,
                       explanation |-> best.explanation,
                       rule_id |-> best.rule_id],
        alternative_diagnoses |-> Tail(diagnoses),
        inference_trace |-> e.inference_trace]

\* the dict diagnose returns when forward_chain found diagnoses
SuccessResult(e, diagnoses) ==
    LET best == diagnoses[1]
    IN [success |-> TRUE,
        diagnosis |-> [cause |-> best.cause,
                       category |-> best.category,
                       confidence |-> best.confidence,
                       solutions |-> best.solutions,
                       explanation |-> best.explanation,
                       rule_id |-> best.rule_id],
        alternative_diagnoses |-> IF Len(diagnoses) > 1
                                  THEN SubSeq(diagnoses, 2, IF Len(diagnoses) < 3
                                                            THEN Len(diagnoses) ELSE 3)
                                  ELSE <<>>,
        inference_trace |-> e.inference_trace]

\* the dict diagnose returns when no rule fired
FallbackResult(e, category) ==
    [success |-> FALSE,
     diagnosis |-> [cause |-> <<"General", category, "issue">>,
                    category |-> category,
                    confidence |-> Frac(1, 2),
                    solutions |-> get_general_solutions(category),
                    explanation |-> [kind |-> "general", cause |-> <<category>>,
                                     conditions_text |-> <<>>],
                    rule_id |-> PyNone],
     alternative_diagnoses |-> <<>>,
     inference_trace |-> e.inference_trace]

\* what diagnose returns or raises after forward_chain ended as fc
DiagnoseOutcome(fc, category) ==
    [engine |-> fc.engine,
     outcome |-> IF fc.raised THEN "raised" ELSE "returned",
     value |-> IF fc.raised THEN [exception |-> "KeyError"]
               ELSE IF fc.diagnoses # <<>> THEN SuccessResult(fc.engine, fc.diagnoses)
               ELSE FallbackResult(fc.engine, category)]

\* InferenceEngine.diagnose(device_type, category, symptoms): the engine after the
\* call, and the dict returned (outcome "returned") or KeyError (outcome "raised")
diagnose(e, device_type, category, symptoms) ==
    DiagnoseOutcome(
        forward_chain(add_facts(add_fact(reset(e), "device", PyStr(device_type)), symptoms),
                      PyStr(device_type), PyStr(category), 30),
        category)

\* str.lower() of a text given as its list of words
LowerWords(words) == [i \in 1 .. Len(words) |-> Lower(words[i])]

\* Contains taking any one word of needle in haystack for an occurrence
Contains_any_word(haystack, needle) ==
    \E i \in 1 .. Len(needle), j \in 1 .. Len(haystack) : haystack[j] = needle[i]

\* needle in haystack, both lists of words: needle occurs as a contiguous run
Contains(haystack, needle) ==
    \E off \in 0 .. Len(haystack) - Len(needle) :
        \A i \in 1 .. Len(needle) : haystack[off + i] = needle[i]

\* InferenceEngine._values_match(actual, expected)
values_match(actual, expected) ==
    IF expected.t = "bool"
    THEN IF actual.t = "str"
         THEN IF expected.n = 1 THEN Lower(actual.s) \in {"yes", "true", "1"}
              ELSE Lower(actual.s) \in {"no", "false", "0"}
         ELSE PyEq(actual, expected)
    ELSE IF expected.t = "str" THEN Lower(Str(actual)) = Lower(expected.s)
    ELSE PyEq(actual, expected)

\* the text backward_chain adds to required_facts for one unsatisfied condition
RequiredFact(e, cond) ==
    IF cond.key \in DOMAIN e.working_memory
    THEN <<cond.key, "should be", Str(cond.expected)>>
    ELSE <<"Need to know", cond.key>>

\* backward_chain's test of one condition against working memory
CondSatisfied(e, cond) ==
    /\ cond.key \in DOMAIN e.working_memory
    /\ values_match(e.working_memory[cond.key], cond.expected)

RECURSIVE ExamineRules_to_the_end(_, _, _, _)
\* ExamineRules going on to the later supporting rules after a satisfied one
ExamineRules_to_the_end(e, supporting_rules, i, required_facts) ==
    IF i > Len(supporting_rules)
    THEN [engine |-> e, outcome |-> "returned", proven |-> FALSE,
          required_facts |-> required_facts]
    ELSE LET rule == supporting_rules[i]
             missing == SelectSeq(rule.conditions, LAMBDA c : ~CondSatisfied(e, c))
             required == [j \in 1 .. Len(missing) |-> RequiredFact(e, missing[j])]
         IN IF ~rule.has_id
            THEN [engine |-> e, outcome |-> "raised", proven |-> FALSE,
                  required_facts |-> <<>>]
            ELSE IF missing = <<>>
            THEN [ExamineRules_to_the_end(
                      [e EXCEPT !.inference_trace =
                          Append(@, TraceItems("Hypothesis PROVEN by rule", rule.id, <<>>))],
                      supporting_rules, i + 1, <<>>)
                    EXCEPT !.proven = TRUE, !.required_facts = <<>>]
            ELSE ExamineRules_to_the_end(
                     [e EXCEPT !.inference_trace =
                         Append(@, TraceItems("Rule needs", rule.id, required))],
                     supporting_rules, i + 1, required)

RECURSIVE ExamineRules_union(_, _, _, _)
\* ExamineRules collecting the required facts of every rule it examines
ExamineRules_union(e, supporting_rules, i, required_facts) ==
    IF i > Len(supporting_rules)
    THEN [engine |-> e, outcome |-> "returned", proven |-> FALSE,
          required_facts |-> required_facts]
    ELSE LET rule == supporting_rules[i]
             missing == SelectSeq(rule.conditions, LAMBDA c : ~CondSatisfied(e, c))
             required == [j \in 1 .. Len(missing) |-> RequiredFact(e, missing[j])]
         IN IF ~rule.has_id
            THEN [engine |-> e, outcome |-> "raised", proven |-> FALSE,
                  required_facts |-> <<>>]
            ELSE IF missing = <<>>
            THEN [engine |-> [e EXCEPT !.inference_trace =
                                 Append(@, TraceItems("Hypothesis PROVEN by rule", rule.id, <<>>))],
                  outcome |-> "returned", proven |-> TRUE, required_facts |-> <<>>]
            ELSE ExamineRules_union(
                     [e EXCEPT !.inference_trace =
                         Append(@, TraceItems("Rule needs", rule.id, required))],
                     supporting_rules, i + 1, required_facts \o required)

RECURSIVE ExamineRules(_, _, _, _)
\* backward_chain's loop over supporting_rules[i ..]; required_facts is the list
\* left by the rule examined before
ExamineRules(e, supporting_rules, i, required_facts) ==
    IF i > Len(supporting_rules)
    THEN [engine |-> e, outcome |-> "returned", proven |-> FALSE,
          required_facts |-> required_facts]
    ELSE LET rule == supporting_rules[i]
             conditions == rule.conditions
             missing == SelectSeq(conditions, LAMBDA c : ~CondSatisfied(e, c))
             required == [j \in 1 .. Len(missing) |-> RequiredFact(e, missing[j])]
             all_satisfied == missing = <<>>
         IN IF ~rule.has_id
            THEN [engine |-> e, outcome |-> "raised", proven |-> FALSE,
                  required_facts |-> <<>>]
            ELSE IF all_satisfied
            THEN [engine |-> [e EXCEPT !.inference_trace =
                                 Append(@, TraceItems("Hypothesis PROVEN by rule", rule.id, <<>>))],
                  outcome |-> "returned", proven |-> TRUE, required_facts |-> <<>>]
            ELSE ExamineRules(
                     [e EXCEPT !.inference_trace =
                         Append(@, TraceItems("Rule needs", rule.id, required))],
                     supporting_rules, i + 1, required)

\* InferenceEngine.backward_chain(hypothesis, device_type): hypothesis a str (its
\* list of words), device_type optional
backward_chain(e, hypothesis, device_type) ==
    LET started == [e EXCEPT !.inference_trace =
                       Append(@, TraceItems("Starting Backward Chaining", "", <<hypothesis>>))]
        rules == IF Truthy(device_type) THEN get_rules_by_device(device_type.s)
                 ELSE kb.all_rules
        supporting_rules ==
            SelectSeq(rules, LAMBDA r : Contains(LowerWords(r.cause), LowerWords(hypothesis)))
    IN IF supporting_rules = <<>>
       THEN [engine |-> [started EXCEPT !.inference_trace =
                            Append(@, TraceItems("No rules found that support hypothesis", "",
                                                 <<hypothesis>>))],
             outcome |-> "returned", proven |-> FALSE, required_facts |-> <<>>]
       ELSE ExamineRules(started, supporting_rules, 1, <<>>)

-----------------------------------------------------------------------------
(* Inputs of the calls *)

\* longest inference trace from which a further stand-alone call is made
MaxTrace == 2

Fact(k, v) == [key |-> k, value |-> v]

\* device_type arguments: the two known types (one in another case) and an unknown one
DeviceTypes == {"computer", "Mobile", "tablet"}

\* category arguments: categories of the catalog and the empty string
Categories == {"overheating", "battery_issues", ""}

\* symptoms arguments of diagnose and facts arguments of add_facts
SymptomMaps ==
    { <<>>,
      <<Fact("fan_noise", PyBool(TRUE))>>,
      <<Fact("fan_noise", PyBool(TRUE)), Fact("hot_surface", PyBool(TRUE))>>,
      <<Fact("hot_surface", PyBool(TRUE)), Fact("fan_noise", PyStr("Loud"))>>,
      <<Fact("fan_noise", PyStr("yes")), Fact("hot_surface", PyStr("maybe"))>>,
      <<Fact("device", PyStr("mobile")), Fact("hot_surface", PyBool(TRUE))>>,
      <<Fact("fan_noise", PyInt(1))>> }

\* arguments of add_fact
FactKeys == {"device", "fan_noise", "hot_surface"}
FactValues == {PyBool(TRUE), PyStr("yes")}

\* optional device_type and category arguments of forward_chain and backward_chain
OptDevices == {PyNone, PyStr("computer")}
OptCategories == {PyNone, PyStr("overheating")}
\* min_confidence / min_match_score arguments, in hundredths (0.3 and the default 0.5)
Thresholds == {30, 50}

\* hypothesis arguments of backward_chain
Hypotheses == {<<"Dust", "accumulation">>, <<"dust">>, <<"fan">>, <<"fault">>, <<"battery", "swollen">>}

\* device_type arguments of get_rules_by_device
DeviceNames == {"computer", "Computer", "mobile", "Mobile", "tablet", ""}

\* user_symptoms arguments of the Rule Store queries
QueryValues ==
    {PyBool(TRUE), PyBool(FALSE), PyStr("yes"), PyStr("maybe"), PyStr("Loud"), PyInt(1)}
QueryDevices == {PyStr("computer"), PyStr("Mobile")}
QueryFacts ==
    { f \in UNION { [K -> QueryValues \cup QueryDevices] : K \in SUBSET FactKeys } :
        \A k \in DOMAIN f : (k = "device") <=> (f[k] \in QueryDevices) }
QueryOptDevices == {PyNone, PyStr("computer"), PyStr("Mobile"), PyStr("tablet")}
QueryOptCategories == {PyNone, PyStr(""), PyStr("overheating"), PyStr("battery_issues")}

\* no result held, no call made, nothing returned, no query made
NoResult == [outcome |-> "none", aliased |-> FALSE]
NoCall == [op |-> "none"]
NoRet == [op |-> "none"]
NoQuery == [op |-> "none"]

-----------------------------------------------------------------------------
(* TroubleshootingChatbot.  The context is the record of the fields of      *)
(* ConversationContext that a later step reads; chat_history, the text of   *)
(* the problem description and prediction_confidence are written and only   *)
(* displayed.  Each method is an operator from the context and the engine   *)
(* state to the step it makes.                                              *)

\* str.strip() on the messages of the model
Strip(x) ==
    CASE x = " Start Over " -> "Start Over"
      [] x = " start over " -> "start over"
      [] OTHER -> x

\* the pairs <<a, b>> of different strings of the model (messages in lower case,
\* device keywords, answer options) with a a substring of b
Substrings ==
    { <<"laptop", "my laptop">>, <<"n", "android">>, <<"n", "iphone">>,
      <<"n", "many">>, <<"n", "no">>, <<"n", "normal">>, <<"n", "phone">>,
      <<"n", "smartphone">>, <<"n", "unsure">>, <<"n", "windows">>,
      <<"phone", "iphone">>, <<"phone", "smartphone">> }

\* Python's "a in b" for two strings
In(a, b) == a = b \/ <<a, b>> \in Substrings

\* ConversationContext.diagnosis_result of a new context (None)
NoDiagnosis == [set |-> FALSE]

\* ConversationContext(): the defaults of the dataclass
NewContext ==
    [state |-> "start",
     device_type |-> PyNone,
     predicted_category |-> PyNone,
     symptoms |-> <<>>,
     current_symptom_index |-> 0,
     symptom_questions |-> <<>>,
     diagnosis_result |-> NoDiagnosis]

\* one (symptom_key, question, options) tuple, the question text left out
Question(symptom_key, options) == [symptom_key |-> symptom_key, options |-> options]

\* COMPUTER_SYMPTOMS.get(category, []), for the categories the model's classifier
\* predicts
COMPUTER_SYMPTOMS(category) ==
    CASE category = "overheating" ->
           <<Question("fan_noise", <<"yes", "no", "sometimes">>),
             Question("hot_surface", <<"yes", "no">>),
             Question("thermal_paste_old", <<"yes", "no", "unsure">>),
             Question("poor_ventilation", <<"yes", "no">>),
             Question("high_cpu_usage", <<"yes", "no", "unsure">>)>>
      [] category = "battery_issues" ->
           <<Question("battery_drain_fast", <<"yes", "no">>),
             Question("not_charging", <<"yes", "no">>),
             Question("battery_swollen", <<"yes", "no">>)>>
      [] OTHER -> <<>>

\* MOBILE_SYMPTOMS.get(category, []), for the same categories
MOBILE_SYMPTOMS(category) ==
    CASE category = "battery_issues" ->
           <<Question("battery_drain", <<"fast", "normal", "slow">>),
             Question("screen_brightness", <<"high", "medium", "low">>),
             Question("background_apps", <<"many", "few", "unsure">>),
             Question("location_always_on", <<"yes", "no">>),
             Question("charging_slow", <<"yes", "no">>)>>
      [] category = "overheating" ->
           <<Question("hot_while_charging", <<"yes", "no">>),
             Question("hot_during_games", <<"yes", "no">>),
             Question("hot_always", <<"yes", "no">>)>>
      [] OTHER -> <<>>

\* get_symptoms_for_device_category(device_type, category)
get_symptoms_for_device_category(device_type, category) ==
    IF Lower(device_type) = "computer" THEN COMPUTER_SYMPTOMS(category)
    ELSE MOBILE_SYMPTOMS(category)

\* the English keywords of process_device_selection (no message of the model holds
\* one of its Arabic keywords)
computer_keywords == {"computer", "pc", "laptop", "desktop", "windows", "mac"}
mobile_keywords == {"mobile", "phone", "android", "iphone", "ios", "tablet", "smartphone"}

\* the English words of process_symptom_response's fuzzy matching
yes_words == {"y", "yeah", "yep", "yup", "affirmative"}
no_words == {"n", "nope", "nah", "negative"}

\* the English commands of process_message
restart_commands == {"new", "restart", "reset", "start over"}
exit_commands == {"exit", "quit", "bye", "goodbye"}

\* what a method of the chatbot leaves: the context, the engine, the diagnose call
\* it made if any, whether it returned or raised, and the kind of its response
Turn(c, e, call, outcome, response) ==
    [context |-> c, engine |-> e, call |-> call, outcome |-> outcome, response |-> response]

\* ChatbotReset that keeps the answers collected so far
ChatbotReset_keeps_answers == [NewContext EXCEPT !.symptoms = context.symptoms]

\* TroubleshootingChatbot.reset(), the context it assigns
ChatbotReset == NewContext

\* get_greeting(): the state it assigns
get_greeting(c) == [c EXCEPT !.state = "device_selection"]

\* process_device_selection(user_input)
process_device_selection(c, e, user_input) ==
    LET user_input_lower == Strip(Lower(user_input))
    IN IF \E word \in computer_keywords : In(word, user_input_lower)
       THEN Turn([c EXCEPT !.device_type = PyStr("computer"),
                           !.state = "problem_description"],
                 e, NoCall, "returned", "describe problem")
       ELSE IF \E word \in mobile_keywords : In(word, user_input_lower)
       THEN Turn([c EXCEPT !.device_type = PyStr("mobile"),
                           !.state = "problem_description"],
                 e, NoCall, "returned", "describe problem")
       ELSE Turn(c, e, NoCall, "returned", "didnt understand")

\* _generate_diagnosis after self.inference_engine.diagnose(...) ended as d: the
\* state is DIAGNOSIS while the call runs and COMPLETE once its result is stored
GeneratedDiagnosis(c, d, call) ==
    IF d.outcome = "raised"
    THEN Turn([c EXCEPT !.state = "diagnosis"], d.engine, call, "raised", "none")
    ELSE Turn([c EXCEPT !.state = "complete",
                        !.diagnosis_result = [set |-> TRUE, value |-> d.value]],
              d.engine, call, "returned", "diagnosis")

\* _generate_diagnosis()
generate_diagnosis(c, e) ==
    GeneratedDiagnosis(c,
                       diagnose(e, c.device_type.s, c.predicted_category.s, c.symptoms),
                       [op |-> "diagnose", device_type |-> c.device_type.s,
                        category |-> c.predicted_category.s, symptoms |-> c.symptoms])

\* process_problem_description(user_input), the classifier predicting prediction
process_problem_description(c, e, prediction) ==
    LET classified ==
            [c EXCEPT !.predicted_category = PyStr(prediction),
                      !.symptom_questions =
                          get_symptoms_for_device_category(c.device_type.s, prediction)]
    IN IF classified.symptom_questions # <<>>
       THEN Turn([classified EXCEPT !.state = "symptom_questions",
                                    !.current_symptom_index = 0],
                 e, NoCall, "returned", "first question")
       ELSE generate_diagnosis(classified, e)

\* the option process_symptom_response takes the answer for: the first option
\* that holds the answer or is held by it, else yes / no for a fuzzy word, else
\* the answer itself
MatchedOption(options, user_input_lower) ==
    LET hits == SelectSeq(options, LAMBDA option : \/ In(Lower(option), user_input_lower)
                                                   \/ In(user_input_lower, Lower(option)))
    IN IF hits # <<>> THEN Head(hits)
       ELSE IF user_input_lower \in yes_words THEN "yes"
       ELSE IF user_input_lower \in no_words THEN "no"
       ELSE user_input_lower

\* symptoms[symptom_key] = matched_option on the ordered mapping
SetItem(symptoms, key, value) ==
    IF \E i \in 1 .. Len(symptoms) : symptoms[i].key = key
    THEN [i \in 1 .. Len(symptoms) |->
             IF symptoms[i].key = key THEN Fact(key, value) ELSE symptoms[i]]
    ELSE Append(symptoms, Fact(key, value))

\* AllAsked one question early
AllAsked_but_last(c) == c.current_symptom_index + 1 >= Len(c.symptom_questions)

\* every symptom question has been asked and answered
AllAsked(c) == c.current_symptom_index >= Len(c.symptom_questions)

\* process_symptom_response(user_input)
process_symptom_response(c, e, user_input) ==
    IF AllAsked(c) THEN generate_diagnosis(c, e)
    ELSE LET question == c.symptom_questions[c.current_symptom_index + 1]
             matched_option == MatchedOption(question.options, Strip(Lower(user_input)))
             answered == [c EXCEPT !.symptoms = SetItem(@, question.symptom_key,
                                                        PyStr(matched_option)),
                                   !.current_symptom_index = @ + 1]
         IN IF ~AllAsked(answered)
            THEN Turn(answered, e, NoCall, "returned", "next question")
            ELSE generate_diagnosis(answered, e)

\* process_message(user_input), the classifier predicting prediction if asked
process_message(c, e, message, prediction) ==
    LET user_input == Strip(message)
        user_input_lower == Lower(user_input)
    IN IF user_input_lower \in restart_commands
       THEN Turn(get_greeting(ChatbotReset), reset(e), NoCall, "returned", "greeting")
       ELSE IF user_input_lower \in exit_commands
       THEN Turn(c, e, NoCall, "returned", "goodbye")
       ELSE IF user_input_lower = "details" /\ c.state = "complete"
       THEN Turn(c, e, NoCall, "returned", "technical details")
       ELSE IF c.state = "start"
       THEN Turn(get_greeting(c), e, NoCall, "returned", "greeting")
       ELSE IF c.state = "device_selection"
       THEN process_device_selection(c, e, user_input)
       ELSE IF c.state = "problem_description"
       THEN process_problem_description(c, e, prediction)
       ELSE IF c.state = "symptom_questions"
       THEN process_symptom_response(c, e, user_input)
       ELSE IF c.state = "complete"
       THEN Turn(c, e, NoCall, "returned", "already diagnosed")
       ELSE Turn(c, e, NoCall, "returned", "not sure")

\* the messages a user sends: commands (one with blanks and capitals), a device,
\* yes, a fuzzy no, and words that are no command in the state they are sent in
Messages == {"new", " Start Over ", "exit", "details", "my laptop", "phone", "yes", "n"}

\* the categories the classifier predicts: two with symptom questions and one
\* that has rules and no questions
Predictions == {"overheating", "battery_issues", "security"}

-----------------------------------------------------------------------------
(* The state machine *)

\* the engine as the three variables hold it
Self == Engine(working_memory, inference_trace, fired_rules)

\* the three variables take the fields of engine state e
Becomes(e) ==
    /\ working_memory' = e.working_memory
    /\ inference_trace' = e.inference_trace
    /\ fired_rules' = e.fired_rules

\* diagnose returns self.inference_trace itself: while the engine keeps that list
\* object, what it appends shows in the returned dict
Held(e) ==
    IF result.aliased THEN [result EXCEPT !.value.inference_trace = e.inference_trace]
    ELSE NoResult

\* EngineOf with working_memory, inference_trace and fired_rules kept in one place
\* for every engine
EngineOf_shared(i) == 1

\* the engine a session owns: each InferenceEngine has its own working_memory,
\* inference_trace and fired_rules, assigned in __init__
EngineOf(i) == i

SessionIds == {1, 2}

Idle == [pc |-> "idle"]

\* two engines constructed over the store, no call made
NoSessions == [engines |-> [i \in SessionIds |-> NewEngine], run |-> [i \in SessionIds |-> Idle]]

Init ==
    /\ kb \in Catalogs
    /\ sessions = NoSessions
    /\ context = NewContext
    /\ working_memory = NewEngine.working_memory
    /\ inference_trace = NewEngine.inference_trace
    /\ fired_rules = NewEngine.fired_rules
    /\ result = NoResult
    /\ prev = NoResult
    /\ last_call = NoCall
    /\ ret = NoRet
    /\ query = NoQuery

\* engine.reset(): a new trace list, so a held result no longer shares it
Reset ==
    /\ Becomes(reset(Self))
    /\ result' = [result EXCEPT !.aliased = FALSE]
    /\ prev' = NoResult
    /\ ret' = NoRet
    /\ kb' = StoreAfterCall(kb)
    /\ UNCHANGED <<last_call, query, sessions, context>>

\* the engine becomes e after a call other than reset and diagnose.  A result that
\* no longer shares the engine's trace list is out of the engine's reach, and is
\* followed no further
Called(e) ==
    /\ Becomes(e)
    /\ result' = Held(e)
    /\ last_call' = NoCall
    /\ prev' = NoResult
    /\ kb' = StoreAfterCall(kb)
    /\ UNCHANGED <<query, sessions, context>>

\* engine.add_fact(key, value)
AddFact(key, value) ==
    /\ Called(add_fact(Self, key, value))
    /\ ret' = NoRet

\* engine.add_facts(facts)
AddFacts(facts) ==
    /\ facts # <<>>
    /\ Called(add_facts(Self, facts))
    /\ ret' = NoRet

ForwardChained(fc, device_type, category, min_confidence) ==
    /\ Called(fc.engine)
    /\ ret' = [op |-> "forward_chain",
               outcome |-> IF fc.raised THEN "raised" ELSE "returned",
               device_type |-> device_type, category |-> category,
               min_confidence |-> min_confidence,
               diagnoses |-> fc.diagnoses]

\* engine.forward_chain(device_type, category, min_confidence)
ForwardChain(device_type, category, min_confidence) ==
    ForwardChained(forward_chain(Self, device_type, category, min_confidence),
                      device_type, category, min_confidence)

BackwardChained(bc, hypothesis, device_type) ==
    /\ Called(bc.engine)
    /\ ret' = [op |-> "backward_chain", outcome |-> bc.outcome,
               hypothesis |-> hypothesis, device_type |-> device_type,
               proven |-> bc.proven, required_facts |-> bc.required_facts]

\* engine.backward_chain(hypothesis, device_type)
BackwardChain(hypothesis, device_type) ==
    BackwardChained(backward_chain(Self, hypothesis, device_type),
                       hypothesis, device_type)

Diagnosed(d, call) ==
    /\ Becomes(d.engine)
    /\ result' = [outcome |-> d.outcome, value |-> d.value,
                  aliased |-> d.outcome = "returned"]
    /\ prev' = IF last_call = call THEN result ELSE NoResult
    /\ last_call' = call
    /\ ret' = NoRet
    /\ kb' = StoreAfterCall(kb)
    /\ UNCHANGED <<query, sessions, context>>

\* result = engine.diagnose(device_type, category, symptoms)
Diagnose(device_type, category, symptoms) ==
    Diagnosed(diagnose(Self, device_type, category, symptoms),
              [op |-> "diagnose", device_type |-> device_type,
               category |-> category, symptoms |-> symptoms])

\* the calls on one engine in any order; a stand-alone call other than reset and
\* diagnose is made while the trace is shorter than MaxTrace
Next ==
    \/ Reset
    \/ /\ Len(inference_trace) < MaxTrace
       /\ \E key \in FactKeys, value \in FactValues : AddFact(key, value)
    \/ /\ Len(inference_trace) < MaxTrace
       /\ \E facts \in SymptomMaps : AddFacts(facts)
    \/ /\ Len(inference_trace) < MaxTrace
       /\ \E device_type \in OptDevices, category \in OptCategories, m \in Thresholds :
              ForwardChain(device_type, category, m)
    \/ /\ Len(inference_trace) < MaxTrace
       /\ \E hypothesis \in Hypotheses, device_type \in OptDevices :
              BackwardChain(hypothesis, device_type)
    \/ \E device_type \in DeviceTypes, category \in Categories, symptoms \in SymptomMaps :
           Diagnose(device_type, category, symptoms)

Spec == Init /\ [][Next]_vars

\* value = kb.match_conditions(rule, user_symptoms), rule a rule of the catalog
MatchConditions ==
    /\ query = NoQuery
    /\ \E i \in 1 .. Len(kb.all_rules), user_symptoms \in QueryFacts :
          query' = [op |-> "match_conditions", rule |-> kb.all_rules[i],
                    user_symptoms |-> user_symptoms,
                    value |-> match_conditions(kb.all_rules[i], user_symptoms)]
    /\ kb' = StoreAfterCall(kb)
    /\ UNCHANGED <<working_memory, inference_trace, fired_rules, result, prev,
                   last_call, ret, sessions, context>>

\* value = kb.find_matching_rules(user_symptoms, device_type, category, min_match_score)
FindMatchingRules ==
    /\ query = NoQuery
    /\ \E user_symptoms \in QueryFacts, device_type \in QueryOptDevices,
          category \in QueryOptCategories, min_match_score \in Thresholds :
          query' = [op |-> "find_matching_rules", user_symptoms |-> user_symptoms,
                    device_type |-> device_type, category |-> category,
                    min_match_score |-> min_match_score,
                    value |-> find_matching_rules(user_symptoms, device_type, category,
                                                  min_match_score)]
    /\ kb' = StoreAfterCall(kb)
    /\ UNCHANGED <<working_memory, inference_trace, fired_rules, result, prev,
                   last_call, ret, sessions, context>>

\* value = kb.get_rules_by_device(device_type)
GetRulesByDevice ==
    /\ query = NoQuery
    /\ \E device_type \in DeviceNames :
          query' = [op |-> "get_rules_by_device", device_type |-> device_type,
                    value |-> get_rules_by_device(device_type)]
    /\ kb' = StoreAfterCall(kb)
    /\ UNCHANGED <<working_memory, inference_trace, fired_rules, result, prev,
                   last_call, ret, sessions, context>>

NextKB == MatchConditions \/ FindMatchingRules \/ GetRulesByDevice

\* the Rule Store queried on its own: one query on a freshly loaded store
SpecKB == Init /\ [][NextKB]_vars

\* a fact mapping as the ordered mapping add_facts takes
FactList(f) ==
    LET keys == SelectSeq(<<"device", "fan_noise", "hot_surface">>, LAMBDA k : k \in DOMAIN f)
    IN [i \in 1 .. Len(keys) |-> Fact(keys[i], f[keys[i]])]

\* the facts a session has gathered when it verifies a hypothesis
VerifyFacts == {FactList(f) : f \in QueryFacts} \ {<<>>}

\* hypothesis arguments of the verifying call: those above, and a word that the
\* causes of a computer rule and of a mobile rule share
VerifyHypotheses == Hypotheses \cup {<<"usage">>}

\* a session that verifies a hypothesis: the engine takes the session's facts,
\* then one backward_chain call is made
NextBC ==
    \/ /\ inference_trace = <<>>
       /\ \E facts \in VerifyFacts : AddFacts(facts)
    \/ /\ ret = NoRet
       /\ \E hypothesis \in VerifyHypotheses, device_type \in OptDevices \cup {PyStr("Mobile")} :
              BackwardChain(hypothesis, device_type)

SpecBC == Init /\ [][NextBC]_vars

\* the diagnose calls two sessions make at the same time, each on its own engine
SessionCalls ==
    { [op |-> "diagnose", device_type |-> "computer", category |-> "overheating",
       symptoms |-> <<Fact("fan_noise", PyBool(TRUE)), Fact("hot_surface", PyBool(TRUE))>>],
      [op |-> "diagnose", device_type |-> "Mobile", category |-> "overheating",
       symptoms |-> <<Fact("device", PyStr("mobile")), Fact("hot_surface", PyBool(TRUE))>>],
      [op |-> "diagnose", device_type |-> "tablet", category |-> "",
       symptoms |-> <<Fact("fan_noise", PyStr("yes")), Fact("hot_surface", PyStr("maybe"))>>] }

\* the engine of session i
SessionEngine(i) == sessions.engines[EngineOf(i)]

\* a step of session i: its engine becomes e, its call in progress r, and nothing
\* else changes
SessionStep(i, e, r) ==
    /\ sessions' = [engines |-> [sessions.engines EXCEPT ![EngineOf(i)] = e],
                    run |-> [sessions.run EXCEPT ![i] = r]]
    /\ kb' = StoreAfterCall(kb)
    /\ UNCHANGED <<working_memory, inference_trace, fired_rules, result, prev,
                   last_call, ret, query, context>>

\* session i enters diagnose(call.device_type, call.category, call.symptoms):
\* self.reset()
SessionReset(i, call) ==
    /\ sessions.run[i].pc = "idle"
    /\ SessionStep(i, reset(SessionEngine(i)), [pc |-> "reset", call |-> call])

\* diagnose: self.add_fact("device", device_type); self.add_facts(symptoms)
SessionAddFacts(i) ==
    /\ sessions.run[i].pc = "reset"
    /\ SessionStep(i,
                   add_facts(add_fact(SessionEngine(i), "device",
                                      PyStr(sessions.run[i].call.device_type)),
                             sessions.run[i].call.symptoms),
                   [sessions.run[i] EXCEPT !.pc = "facts"])

\* forward_chain up to its loop: the trace entry, then matches = find_matching_rules
SessionRank(i) ==
    /\ sessions.run[i].pc = "facts"
    /\ SessionStep(i, StartChain(SessionEngine(i)),
                   [pc |-> "ranked", call |-> sessions.run[i].call,
                    matches |-> find_matching_rules(SessionEngine(i).working_memory,
                                                    PyStr(sessions.run[i].call.device_type),
                                                    PyStr(sessions.run[i].call.category), 30)])

SessionFired(i, fc) ==
    SessionStep(i, fc.engine,
                IF fc.raised
                THEN [pc |-> "done", call |-> sessions.run[i].call, outcome |-> "raised",
                      value |-> [exception |-> "KeyError"]]
                ELSE [pc |-> "fired", call |-> sessions.run[i].call,
                      diagnoses |-> fc.diagnoses])

\* forward_chain's loop over matches and its return to diagnose, or KeyError
SessionFire(i) ==
    /\ sessions.run[i].pc = "ranked"
    /\ SessionFired(i, FireAll(SessionEngine(i), Firing(sessions.run[i].matches, 30)))

SessionReturned(i, d) ==
    SessionStep(i, d.engine,
                [pc |-> "done", call |-> sessions.run[i].call, outcome |-> d.outcome,
                 value |-> d.value])

\* diagnose builds the dict it returns from diagnoses and self.inference_trace
SessionReturn(i) ==
    /\ sessions.run[i].pc = "fired"
    /\ SessionReturned(i, DiagnoseOutcome([engine |-> SessionEngine(i),
                                           diagnoses |-> sessions.run[i].diagnoses,
                                           raised |-> FALSE],
                                          sessions.run[i].call.category))

\* two sessions, each one diagnose call on its engine, their steps in any order
NextSessions ==
    \E i \in SessionIds :
        \/ \E call \in SessionCalls : SessionReset(i, call)
        \/ SessionAddFacts(i)
        \/ SessionRank(i)
        \/ SessionFire(i)
        \/ SessionReturn(i)

SpecSessions == Init /\ [][NextSessions]_vars

\* a caller that keeps the dict diagnose returned and goes on using the engine:
\* a first diagnose call, then any call on the same engine while the dict is held
NextHeld ==
    \/ /\ result = NoResult
       /\ \E device_type \in DeviceTypes, category \in Categories, symptoms \in SymptomMaps :
              Diagnose(device_type, category, symptoms)
    \/ /\ last_call.op = "diagnose" /\ result.outcome = "returned" /\ result.aliased
       /\ \/ Reset
          \/ \E key \in FactKeys, value \in FactValues : AddFact(key, value)
          \/ \E facts \in SymptomMaps : AddFacts(facts)
          \/ \E device_type \in OptDevices, category \in OptCategories, m \in Thresholds :
                 ForwardChain(device_type, category, m)
          \/ \E hypothesis \in Hypotheses, device_type \in OptDevices :
                 BackwardChain(hypothesis, device_type)
          \/ \E device_type \in DeviceTypes, category \in Categories,
                symptoms \in SymptomMaps :
                 Diagnose(device_type, category, symptoms)

SpecHeld == Init /\ [][NextHeld]_vars

\* what a method of the chatbot left becomes the state; ret holds the message
\* processed, the conversation state and the number of answers it came upon, how
\* the method ended and the diagnose call it made
Handled(turn, message) ==
    /\ context' = turn.context
    /\ Becomes(turn.engine)
    /\ ret' = [op |-> "process_message", user_input |-> message, state |-> context.state,
               answers |-> Len(context.symptoms),
               outcome |-> turn.outcome, response |-> turn.response, call |-> turn.call]
    /\ kb' = StoreAfterCall(kb)
    /\ UNCHANGED <<result, prev, last_call, query, sessions>>

\* chatbot.get_greeting(), called once the chatbot is constructed (main.py, gui.py)
GetGreeting ==
    /\ context.state = "start"
    /\ context' = get_greeting(context)
    /\ ret' = [op |-> "get_greeting"]
    /\ kb' = StoreAfterCall(kb)
    /\ UNCHANGED <<working_memory, inference_trace, fired_rules, result, prev, last_call,
                   query, sessions>>

\* chatbot.process_message(message); the classifier is asked in
\* process_problem_description only, and answers with any of its categories
ProcessMessage(message) ==
    \E prediction \in IF context.state = "problem_description" THEN Predictions
                      ELSE {"overheating"} :
        Handled(process_message(context, Self, message, prediction), message)

NextChat ==
    \/ GetGreeting
    \/ \E message \in Messages : ProcessMessage(message)

\* one chatbot with its own engine over the store, from its construction on
SpecChat == Init /\ [][NextChat]_vars

-----------------------------------------------------------------------------
(* Properties *)

\* the state right after a diagnose call that returned: last_call holds its
\* arguments, result the dict, the engine variables what the call left
JustReturned ==
    /\ last_call.op = "diagnose"
    /\ result.outcome = "returned"
    /\ result.aliased

\* the candidate pool of the last diagnose call
DiagnosePool == CandidatePool(PyStr(last_call.device_type), PyStr(last_call.category))

\* number of conditions of rule that the facts satisfy, counted one by one
MatchedCount(rule, facts) ==
    Cardinality({i \in 1 .. Len(rule.conditions) : CondMatched(rule.conditions[i], facts)})

\* match score x rule confidence >= t hundredths, for a rule with conditions:
\* matched / total * confidence / 100 >= t / 100
CombinedAtLeast(rule, facts, t) ==
    /\ Len(rule.conditions) > 0
    /\ MatchedCount(rule, facts) * RuleConfidence(rule) >= t * Len(rule.conditions)

\* match score x rule confidence > t hundredths
CombinedAbove(rule, facts, t) ==
    /\ Len(rule.conditions) > 0
    /\ MatchedCount(rule, facts) * RuleConfidence(rule) > t * Len(rule.conditions)

\* match score >= t hundredths
ScoreAtLeast(rule, facts, t) ==
    /\ Len(rule.conditions) > 0
    /\ MatchedCount(rule, facts) * 100 >= t * Len(rule.conditions)

\* the result is the fallback: success false, rule_id None, solutions not empty
IsFallback(r) ==
    /\ r.success = FALSE
    /\ r.diagnosis.rule_id = PyNone
    /\ r.diagnosis.solutions # <<>>

Range(seq) == {seq[i] : i \in 1 .. Len(seq)}

\* C1 as stated: whenever diagnose returns and no rule of the candidate pool has a
\* combined confidence above 0.3, the result has success = false, rule_id = None
\* and a non-empty solutions list.  (Refuted: a combined confidence of exactly 0.3
\* fires the rule.)
C1_FallbackWhenNoneAbove ==
    (JustReturned /\ \A i \in 1 .. Len(DiagnosePool) :
                        ~CombinedAbove(DiagnosePool[i], working_memory, 30))
        => IsFallback(result.value)

\* C1 amended: whenever diagnose returns and no rule of the candidate pool has a
\* combined confidence of 0.3 or more, the result has success = false,
\* rule_id = None and a non-empty solutions list.
C1_FallbackWhenNoneReaches ==
    (JustReturned /\ \A i \in 1 .. Len(DiagnosePool) :
                        ~CombinedAtLeast(DiagnosePool[i], working_memory, 30))
        => IsFallback(result.value)

\* C1 witness: a fallback over a non-empty pool, for a category without an entry
\* in the generic list and symptoms that were given but match no rule
C1_Witness ==
    /\ JustReturned
    /\ Len(DiagnosePool) > 1
    /\ \A i \in 1 .. Len(DiagnosePool) :
           ~CombinedAtLeast(DiagnosePool[i], working_memory, 30)
    /\ last_call.category = ""
    /\ Len(last_call.symptoms) = 2
    /\ IsFallback(result.value)

\* C2: when diagnose is called twice in a row with identical arguments (only reset
\* called in between), the second call ends as the first did and returns an
\* identical dict: success flag, primary diagnosis, alternatives and trace.
C2_ResetDiagnoseIdempotent ==
    prev.outcome # "none" =>
        /\ result.outcome = prev.outcome
        /\ prev.outcome = "returned" => result.value = prev.value

\* C2 witness: the second of two identical calls returned a rule-based diagnosis
\* with alternatives
C2_Witness ==
    /\ prev.outcome = "returned"
    /\ result.outcome = "returned"
    /\ result.value.success
    /\ Len(result.value.alternative_diagnoses) = 2
    /\ Len(last_call.symptoms) = 2

\* C8 as stated: no diagnose call and no backward_chain call ends in an error.
\* (Refuted: rule['id'] raises KeyError on a rule record without id, which the
\* loader accepts.)
C8_QueriesNeverRaise ==
    /\ result.outcome # "raised"
    /\ ret.op = "backward_chain" => ret.outcome # "raised"

\* the rules fired by the last diagnose call, as ids
FiredIds == [i \in 1 .. Len(fired_rules) |-> PyStr(fired_rules[i].id)]

Min(a, b) == IF a < b THEN a ELSE b

\* C9: after diagnose returns, success is true iff at least one rule fired; with
\* n >= 1 fired rules the primary diagnosis is the first fired rule and the
\* alternatives are exactly the second and third fired rules, min(2, n-1) of them,
\* the fired rules being in Ranker order; with none fired there is no alternative.
C9_ResultShape ==
    JustReturned =>
        LET n == Len(fired_rules)
            r == result.value
            ranked == find_matching_rules(working_memory, PyStr(last_call.device_type),
                                          PyStr(last_call.category), 30)
        IN /\ r.success <=> n >= 1
           /\ Len(r.alternative_diagnoses) = (IF n = 0 THEN 0 ELSE Min(2, n - 1))
           /\ n >= 1 => r.diagnosis.rule_id = FiredIds[1]
           /\ \A i \in 1 .. Len(r.alternative_diagnoses) :
                  r.alternative_diagnoses[i].rule_id = FiredIds[i + 1]
           /\ fired_rules = [i \in 1 .. n |->
                                SelectSeq(ranked, LAMBDA m : m.rule \in Range(fired_rules))[i].rule]

\* C9 witness: four rules fired, so one fired rule was discarded
C9_Witness ==
    /\ JustReturned
    /\ Len(fired_rules) >= 4
    /\ Len(result.value.alternative_diagnoses) = 2

\* C10: after diagnose returns, a rule of the candidate pool is among the fired
\* rules iff its match score is at least 0.3 and its match score x rule
\* confidence is at least 0.3.
C10_TwoStageFiring ==
    JustReturned =>
        \A i \in 1 .. Len(DiagnosePool) :
            (DiagnosePool[i] \in Range(fired_rules))
                <=> /\ ScoreAtLeast(DiagnosePool[i], working_memory, 30)
                    /\ CombinedAtLeast(DiagnosePool[i], working_memory, 30)

\* C10 witness: one rule of the pool passes the score test and fails the combined
\* test, another passes both with a combined confidence of exactly 0.3
C10_Witness ==
    /\ JustReturned
    /\ \E i \in 1 .. Len(DiagnosePool) :
           /\ ScoreAtLeast(DiagnosePool[i], working_memory, 30)
           /\ ~CombinedAtLeast(DiagnosePool[i], working_memory, 30)
    /\ \E i \in 1 .. Len(DiagnosePool) :
           /\ CombinedAtLeast(DiagnosePool[i], working_memory, 30)
           /\ ~CombinedAbove(DiagnosePool[i], working_memory, 30)
           /\ DiagnosePool[i] \in Range(fired_rules)

\* the query made was match_conditions(rule, user_symptoms)
MatchQueried == query.op = "match_conditions"

\* user_symptoms with the fact key = value added, every other fact unchanged
WithFact(user_symptoms, key, value) ==
    [k \in DOMAIN user_symptoms \cup {key} |-> IF k = key THEN value ELSE user_symptoms[k]]

\* C3: the score match_conditions returns is 0 for a rule without conditions and
\* |matched| / |conditions| otherwise, matched being the returned list and holding
\* one key per satisfied condition; so 0 <= score <= 1.
C3_ScoreFormula ==
    MatchQueried =>
        LET score == query.value.match_score
            n == Len(query.rule.conditions)
        IN /\ score.den > 0
           /\ 0 <= score.num /\ score.num <= score.den
           /\ n = 0 => score.num = 0
           /\ n > 0 => /\ score.num * n = Len(query.value.matched) * score.den
                       /\ Len(query.value.matched) = MatchedCount(query.rule, query.user_symptoms)

\* C3 witness: a rule of three conditions matched on two of them
C3_Witness ==
    /\ MatchQueried
    /\ Len(query.rule.conditions) = 3
    /\ Len(query.value.matched) = 2
    /\ FracEq(query.value.match_score, Frac(2, 3))

\* number of places of seq that hold x
Count(seq, x) == Cardinality({i \in 1 .. Len(seq) : seq[i] = x})

\* C4: the matched and unmatched lists of match_conditions hold every condition
\* key of the rule exactly once between them and nothing else, and a condition key
\* absent from the facts is in unmatched.
C4_Partition ==
    MatchQueried =>
        LET conds == query.rule.conditions
            both == query.value.matched \o query.value.unmatched
        IN /\ \A i \in 1 .. Len(conds) : Count(both, conds[i].key) = 1
           /\ Range(both) \subseteq Range(Keys(conds))
           /\ Range(query.value.matched) \cap Range(query.value.unmatched) = {}
           /\ \A i \in 1 .. Len(conds) :
                  conds[i].key \notin DOMAIN query.user_symptoms
                      => conds[i].key \in Range(query.value.unmatched)

\* C4 witness: one key matched, one unmatched on its value, one unmatched for
\* being absent
C4_Witness ==
    /\ MatchQueried
    /\ Len(query.value.matched) = 1
    /\ Len(query.value.unmatched) = 2
    /\ \E k \in Range(query.value.unmatched) : k \in DOMAIN query.user_symptoms
    /\ \E k \in Range(query.value.unmatched) : k \notin DOMAIN query.user_symptoms

\* the recognised tokens a string fact must be one of to match a boolean
TokenMatch(text, expected) ==
    IF expected.n = 1 THEN text \in {"yes", "true", "1"} ELSE text \in {"no", "false", "0"}

\* C5 as stated: for a condition with a boolean expected value and a string fact,
\* match_conditions lists the key as matched iff the string is one of yes/true/1
\* (expected true) or no/false/0 (expected false).  (Refuted: the fact is compared
\* with the boolean by ==, so no string matches.)
C5_BooleanTokens ==
    MatchQueried =>
        \A i \in 1 .. Len(query.rule.conditions) :
            LET cond == query.rule.conditions[i]
            IN (/\ cond.expected.t = "bool"
                /\ cond.key \in DOMAIN query.user_symptoms
                /\ query.user_symptoms[cond.key].t = "str")
               => (cond.key \in Range(query.value.matched)
                      <=> TokenMatch(query.user_symptoms[cond.key].s, cond.expected))

\* a value that matches the expected value, by the matcher's own test or by the
\* engine's _values_match
ValueMatches(value, cond) ==
    \/ CondMatched(cond, WithFact(<<>>, cond.key, value))
    \/ values_match(value, cond.expected)

\* C6: for a condition of the rule that the facts leave unmatched, adding a fact
\* for its key whose value matches the expected value gives a score not lower than
\* before, and no other key of the rule changes sides.
C6_Monotonic ==
    MatchQueried =>
        \A i \in 1 .. Len(query.rule.conditions) :
            \A value \in QueryValues \cup QueryDevices :
                LET cond == query.rule.conditions[i]
                    after == match_conditions(query.rule,
                                              WithFact(query.user_symptoms, cond.key, value))
                IN (~CondMatched(cond, query.user_symptoms) /\ ValueMatches(value, cond))
                   => /\ FracGE(after.match_score, query.value.match_score)
                      /\ Range(query.value.matched) \subseteq Range(after.matched)

\* C6 witness: a rule matched in part, a fact present with a value that does not
\* match, and a matching value for it that raises the score
C6_Witness ==
    /\ MatchQueried
    /\ Len(query.value.matched) = 1
    /\ \E i \in 1 .. Len(query.rule.conditions) :
           LET cond == query.rule.conditions[i]
           IN /\ cond.key \in DOMAIN query.user_symptoms
              /\ ~CondMatched(cond, query.user_symptoms)
              /\ \E value \in QueryValues :
                     /\ ValueMatches(value, cond)
                     /\ ~FracGE(query.value.match_score,
                                match_conditions(query.rule,
                                    WithFact(query.user_symptoms, cond.key, value)).match_score)

\* the query made was find_matching_rules
RankQueried == query.op = "find_matching_rules"

\* C7: the list find_matching_rules returns is in non-increasing match score, and
\* of two entries of equal score whose rules both carry a confidence, the one of
\* higher confidence comes first.
C7_RankingOrder ==
    RankQueried =>
        \A i, j \in 1 .. Len(query.value) :
            i < j => LET a == query.value[i]
                         b == query.value[j]
                     IN /\ a.match_score.num * b.match_score.den
                              >= b.match_score.num * a.match_score.den
                        /\ (/\ a.match_score.num * b.match_score.den
                                  = b.match_score.num * a.match_score.den
                            /\ a.rule.has_conf /\ b.rule.has_conf)
                           => a.rule.confidence >= b.rule.confidence

\* position of rule in the catalog
CatalogIndex(rule) == CHOOSE i \in 1 .. Len(kb.all_rules) : kb.all_rules[i] = rule

\* C7 witness: two entries of equal score, the first of higher confidence though
\* its rule is later in the catalog, and an entry of lower score behind them
C7_Witness ==
    /\ RankQueried
    /\ Len(query.value) >= 3
    /\ \E i, j \in 1 .. Len(query.value) :
           /\ i < j
           /\ FracEq(query.value[i].match_score, query.value[j].match_score)
           /\ query.value[i].rule.confidence > query.value[j].rule.confidence
           /\ CatalogIndex(query.value[i].rule) > CatalogIndex(query.value[j].rule)
    /\ ~FracEq(query.value[1].match_score, query.value[Len(query.value)].match_score)

\* the rule of the catalog with the id a diagnosis reports
RuleOfId(rule_id) ==
    CHOOSE rule \in Range(kb.all_rules) : rule.has_id /\ PyStr(rule.id) = rule_id

\* confidence = matched / total * authored / 100 for the rule of diagnosis d, the
\* conditions counted against the facts one by one (authored is 0.8 for a rule
\* that carries no confidence)
ReportsCombined(d, facts) ==
    LET rule == RuleOfId(d.rule_id)
    IN /\ Len(rule.conditions) > 0
       /\ d.confidence.num * Len(rule.conditions) * 100
              = d.confidence.den * MatchedCount(rule, facts) * RuleConfidence(rule)

\* C11: in a rule-based result of diagnose, the confidence of the primary
\* diagnosis and of each alternative equals the rule's match score against the
\* working memory times the rule's confidence.
C11_ReportedConfidence ==
    (JustReturned /\ result.value.success) =>
        /\ ReportsCombined(result.value.diagnosis, working_memory)
        /\ \A i \in 1 .. Len(result.value.alternative_diagnoses) :
               ReportsCombined(result.value.alternative_diagnoses[i], working_memory)

\* C11 witness: the primary rule matched on 2 of 3 conditions with confidence 0.9
\* and reports 0.6, with two alternatives
C11_Witness ==
    /\ JustReturned
    /\ result.value.success
    /\ result.value.diagnosis.rule_id = PyStr("COMP_HEAT_001")
    /\ MatchedCount(RuleOfId(PyStr("COMP_HEAT_001")), working_memory) = 2
    /\ result.value.diagnosis.confidence.num * 10 = result.value.diagnosis.confidence.den * 6
    /\ Len(result.value.alternative_diagnoses) = 2

\* the state right after a diagnose call, returned or raised
JustDiagnosed ==
    /\ last_call.op = "diagnose"
    /\ result.outcome # "none"
    /\ inference_trace # <<>>

\* the facts of a diagnose call: device_type under "device", then symptoms in order
\* (a later fact of the same key replaces an earlier one)
CallFacts(call) ==
    LET facts == <<Fact("device", PyStr(call.device_type))>> \o call.symptoms
    IN [k \in {facts[i].key : i \in 1 .. Len(facts)} |->
           facts[CHOOSE i \in 1 .. Len(facts) :
                    /\ facts[i].key = k
                    /\ \A j \in i + 1 .. Len(facts) : facts[j].key # k].value]

\* C12: after diagnose(d, c, S), whatever calls came before, working memory holds
\* the device fact and the facts of S and nothing else, fired_rules holds rules
\* of this call's candidate pool that reach 0.3 on these facts, each once, and the
\* trace is the one the same call leaves on a new engine.
C12_DiagnoseStartsClean ==
    JustDiagnosed =>
        /\ working_memory = CallFacts(last_call)
        /\ \A i \in 1 .. Len(fired_rules) :
               /\ fired_rules[i] \in Range(DiagnosePool)
               /\ CombinedAtLeast(fired_rules[i], CallFacts(last_call), 30)
               /\ \A j \in 1 .. Len(fired_rules) : fired_rules[j] = fired_rules[i] => j = i
        /\ inference_trace
             = diagnose(NewEngine, last_call.device_type, last_call.category,
                        last_call.symptoms).engine.inference_trace
        /\ Len(inference_trace) >= Len(last_call.symptoms) + 3
        /\ \A i \in 1 .. Len(last_call.symptoms) + 1 : inference_trace[i].kind = "Added fact"

\* C12 witness: the call came after an earlier diagnose call that left facts, fired
\* rules and a trace, and itself fired rules
C12_Witness ==
    /\ JustDiagnosed
    /\ prev.outcome = "returned"
    /\ Len(fired_rules) >= 2
    /\ DOMAIN working_memory = {"device", "fan_noise"}
    /\ working_memory["device"] = PyStr("computer")

\* C17: no step (reset, add_fact, add_facts, forward_chain, backward_chain,
\* diagnose, with the store queries they make) changes computer_rules,
\* mobile_rules, all_rules or a field of a rule.
C17_StoreReadOnly == [][kb' = kb]_vars

\* C17 witness: a diagnose call ranked and fired rules of the store in another
\* order than the store lists them, and the store lists them as loaded
C17_Witness ==
    /\ JustReturned
    /\ Len(fired_rules) >= 3
    /\ fired_rules[1] = ComputerMaster[3]
    /\ fired_rules[3] = ComputerMaster[1]
    /\ kb \in Catalogs
    /\ kb.all_rules = kb.computer_rules \o kb.mobile_rules

\* the state right after a backward_chain call
Verified == ret.op = "backward_chain"

\* needle occurs in haystack as a run of words, letter case apart
Occurs(needle, haystack) ==
    \E off \in 0 .. Len(haystack) - Len(needle) :
        \A i \in 1 .. Len(needle) : Lower(haystack[off + i]) = Lower(needle[i])

\* the rules the call looks through: those of the device when one was given
VerifyPool ==
    IF ret.device_type.t = "str" /\ ret.device_type.s # ""
    THEN get_rules_by_device(ret.device_type.s)
    ELSE kb.all_rules

\* the supporting rules of the call, in catalog order
Supporting == SelectSeq(VerifyPool, LAMBDA rule : Occurs(ret.hypothesis, rule.cause))

\* the condition is satisfied by a fact in working memory
Satisfies(cond) ==
    /\ cond.key \in DOMAIN working_memory
    /\ values_match(working_memory[cond.key], cond.expected)

AllSatisfied(rule) == \A i \in 1 .. Len(rule.conditions) : Satisfies(rule.conditions[i])

\* the trace entries the call wrote about the rules it examined
Examined ==
    SelectSeq(inference_trace,
              LAMBDA entry : entry.kind \in {"Rule needs", "Hypothesis PROVEN by rule"})

\* C13: when no rule the call looks through has a cause containing the hypothesis
\* (letter case apart), backward_chain returns proven = false and an empty list
\* of required facts, and has examined no rule.
C13_NoSupportingRule ==
    (Verified /\ Supporting = <<>>) =>
        /\ ret.outcome = "returned"
        /\ ret.proven = FALSE
        /\ ret.required_facts = <<>>
        /\ Examined = <<>>

\* C13 witness: a rule of the catalog contains the hypothesis but the device
\* filter leaves it out, with facts in working memory
C13_Witness ==
    /\ Verified
    /\ Supporting = <<>>
    /\ VerifyPool # <<>>
    /\ \E i \in 1 .. Len(kb.all_rules) : Occurs(ret.hypothesis, kb.all_rules[i].cause)
    /\ Cardinality(DOMAIN working_memory) = 2
    /\ ret.outcome = "returned"

\* position of the first satisfied supporting rule (0 when there is none)
FirstSatisfied ==
    IF \E i \in 1 .. Len(Supporting) : AllSatisfied(Supporting[i])
    THEN CHOOSE i \in 1 .. Len(Supporting) :
            /\ AllSatisfied(Supporting[i])
            /\ \A j \in 1 .. i - 1 : ~AllSatisfied(Supporting[j])
    ELSE 0

\* C14: a backward_chain call that returns reports proven = true iff some
\* supporting rule has every condition satisfied by a fact of working memory; it
\* then returns no required facts and has examined the supporting rules up to the
\* first such rule, in catalog order, and no later one.
C14_ProvenAtFirstSatisfied ==
    (Verified /\ ret.outcome = "returned") =>
        /\ ret.proven <=> FirstSatisfied # 0
        /\ ret.proven =>
              /\ ret.required_facts = <<>>
              /\ Len(Examined) = FirstSatisfied
              /\ \A i \in 1 .. Len(Examined) :
                     /\ Examined[i].key = Supporting[i].id
                     /\ Examined[i].kind = (IF i = FirstSatisfied
                                            THEN "Hypothesis PROVEN by rule" ELSE "Rule needs")

\* C14 witness: the first of two supporting rules is satisfied by two facts and the
\* later rule is not examined
C14_Witness ==
    /\ Verified
    /\ ret.outcome = "returned"
    /\ ret.proven
    /\ Len(Supporting) = 2
    /\ FirstSatisfied = 1
    /\ Len(Supporting[1].conditions) = 2
    /\ Len(Examined) = 1

\* the required-facts entries of a rule: one per unsatisfied condition, in order
RequiredOf(rule) ==
    LET missing == SelectSeq(rule.conditions, LAMBDA c : ~Satisfies(c))
    IN [i \in 1 .. Len(missing) |->
           IF missing[i].key \in DOMAIN working_memory
           THEN <<missing[i].key, "should be", Str(missing[i].expected)>>
           ELSE <<"Need to know", missing[i].key>>]

\* C20: a backward_chain call that returns, with at least one supporting rule and
\* none fully satisfied, reports proven = false and the required facts of the last
\* supporting rule alone: one entry per unsatisfied condition, in condition order,
\* "should be" for a key known with another value, "Need to know" for an absent key.
C20_RequiredFactsOfLastRule ==
    (Verified /\ ret.outcome = "returned" /\ Supporting # <<>> /\ FirstSatisfied = 0) =>
        /\ ret.proven = FALSE
        /\ ret.required_facts = RequiredOf(Supporting[Len(Supporting)])
        /\ Len(Examined) = Len(Supporting)

\* C20 witness: two supporting rules with different required facts, the last one
\* with a key known with another value and an absent key
C20_Witness ==
    /\ Verified
    /\ ret.outcome = "returned"
    /\ Len(Supporting) = 2
    /\ FirstSatisfied = 0
    /\ RequiredOf(Supporting[1]) # RequiredOf(Supporting[2])
    /\ Len(ret.required_facts) = 2
    /\ ret.required_facts[1][2] = "should be"
    /\ ret.required_facts[2][1] = "Need to know"

\* C15 as stated: a rule source with a rule record that lacks a required field is
\* refused at load, so the store never holds such a record.  (Refuted: the loader
\* takes the "rules" list of each file as it is and raises nothing.)
C15_MalformedSourceRefused ==
    \A i \in 1 .. Len(kb.all_rules) : kb.all_rules[i].has_id /\ kb.all_rules[i].has_conf

\* C16: get_rules_by_device returns the computer rules for "computer", the mobile
\* rules for "mobile", in any letter case, and the whole catalog for every other
\* string.
C16_ByDevice ==
    query.op = "get_rules_by_device" =>
        query.value = (IF query.device_type \in {"computer", "Computer"}
                       THEN kb.computer_rules
                       ELSE IF query.device_type \in {"mobile", "Mobile"}
                       THEN kb.mobile_rules
                       ELSE kb.computer_rules \o kb.mobile_rules)

\* C16 witness: the mobile rules returned for "Mobile" from a store that also
\* holds computer rules
C16_Witness ==
    /\ query.op = "get_rules_by_device"
    /\ query.device_type = "Mobile"
    /\ Len(kb.computer_rules) >= 2
    /\ query.value = MobileMaster

\* C19 as stated: for a condition whose key is among the facts, match_conditions
\* lists the key as matched exactly when _values_match says the fact satisfies
\* the expected value.  (Refuted: for a boolean expected value and a string fact
\* _values_match maps yes/true/1 and no/false/0, match_conditions compares by ==.)
C19_SameEqualityPolicy ==
    MatchQueried =>
        \A i \in 1 .. Len(query.rule.conditions) :
            LET cond == query.rule.conditions[i]
            IN cond.key \in DOMAIN query.user_symptoms
               => (cond.key \in Range(query.value.matched)
                      <=> values_match(query.user_symptoms[cond.key], cond.expected))

\* seq is an initial part of whole
IsPrefix(seq, whole) == Len(seq) <= Len(whole) /\ seq = SubSeq(whole, 1, Len(seq))

\* what session i's engine and call hold is what they hold at some point of the
\* same call made alone on a new engine
AsAlone(i) ==
    LET r == sessions.run[i]
        e == sessions.engines[i]
        alone == diagnose(NewEngine, r.call.device_type, r.call.category, r.call.symptoms)
    IN /\ e.working_memory = (IF r.pc = "reset" THEN EmptyDict ELSE CallFacts(r.call))
       /\ IsPrefix(e.inference_trace, alone.engine.inference_trace)
       /\ IsPrefix(e.fired_rules, alone.engine.fired_rules)
       /\ r.pc \in {"reset", "facts", "ranked"} => e.fired_rules = <<>>
       /\ r.pc = "done" => /\ r.outcome = alone.outcome
                           /\ r.value = alone.value
                           /\ e = alone.engine

\* C18: with two engines over one store and the steps of their diagnose calls in
\* any order, each call returns (or raises) what it does when made alone on a new
\* engine, and at every step each engine's working memory, trace and fired rules
\* are those of its own call alone.
C18_SessionIsolation ==
    \A i \in SessionIds :
        IF sessions.run[i].pc = "idle" THEN sessions.engines[i] = NewEngine ELSE AsAlone(i)

\* C18 witness: both calls are in progress at once, with different arguments, one
\* ranked and the other with its facts added
C18_Witness ==
    /\ sessions.run[1].pc = "ranked"
    /\ sessions.run[2].pc = "facts"
    /\ sessions.run[1].call.device_type = "computer"
    /\ sessions.run[2].call.device_type = "tablet"
    /\ sessions.engines[1].working_memory # sessions.engines[2].working_memory
    /\ Len(sessions.run[1].matches) >= 3

\* the candidate pool of the find_matching_rules query made
QueryPool == CandidatePool(query.device_type, query.category)

\* number of entries of the returned list that are for rule
EntriesOf(rule) ==
    Cardinality({p \in 1 .. Len(query.value) : query.value[p].rule = rule})

\* C21: find_matching_rules returns exactly one entry for every rule of the
\* candidate pool whose match score is at least min_match_score and none for a
\* rule of lower score or outside the pool, and each entry carries the score and
\* the matched and unmatched lists match_conditions computes for its rule.
C21_ThresholdFilter ==
    RankQueried =>
        /\ \A i \in 1 .. Len(QueryPool) :
               EntriesOf(QueryPool[i])
                  = IF ScoreAtLeast(QueryPool[i], query.user_symptoms, query.min_match_score)
                    THEN 1 ELSE 0
        /\ \A p \in 1 .. Len(query.value) :
               LET e == query.value[p]
                   m == match_conditions(e.rule, query.user_symptoms)
               IN /\ e.rule \in Range(QueryPool)
                  /\ e.match_score = m.match_score
                  /\ e.matched_conditions = m.matched
                  /\ e.unmatched_conditions = m.unmatched
                  /\ Len(e.matched_conditions) = MatchedCount(e.rule, query.user_symptoms)

\* C21 witness: a query whose pool holds a rule scoring exactly the minimum, which
\* has its entry, and a rule scoring less, which has none
C21_Witness ==
    /\ RankQueried
    /\ \E i, j \in 1 .. Len(QueryPool) :
           /\ MatchedCount(QueryPool[i], query.user_symptoms) * 100
                 = query.min_match_score * Len(QueryPool[i].conditions)
           /\ EntriesOf(QueryPool[i]) = 1
           /\ Len(QueryPool[j].conditions) > 0
           /\ ~ScoreAtLeast(QueryPool[j], query.user_symptoms, query.min_match_score)
           /\ EntriesOf(QueryPool[j]) = 0

\* an optional string argument is given: a string, and not the empty one
Given(arg) == arg.t = "str" /\ arg.s # ""

\* the partition of the catalog for a device type: the computer rules, the mobile
\* rules, or for any other string the whole catalog
PartitionOf(device_type) ==
    IF Lower(device_type.s) = "computer" THEN Range(kb.computer_rules)
    ELSE IF Lower(device_type.s) = "mobile" THEN Range(kb.mobile_rules)
    ELSE Range(kb.all_rules)

\* the rules the query made may draw from, by the precedence of its filters
ExpectedPool ==
    LET of_device == IF Given(query.device_type) THEN PartitionOf(query.device_type)
                     ELSE Range(kb.all_rules)
    IN IF Given(query.category)
       THEN {rule \in of_device : rule.category = query.category.s}
       ELSE of_device

\* C22: the rules find_matching_rules returns are the rules reaching the minimum
\* score among those of the given category (within the given device's partition
\* when a device is given too) when a category is given, among the given device's
\* partition when only a device is given, and among the full catalog when neither
\* is given; no rule of another category is returned when a category is given.
C22_PoolPrecedence ==
    RankQueried =>
        /\ {query.value[p].rule : p \in 1 .. Len(query.value)}
              = {rule \in ExpectedPool :
                    ScoreAtLeast(rule, query.user_symptoms, query.min_match_score)}
        /\ Given(query.category)
              => \A p \in 1 .. Len(query.value) :
                     query.value[p].rule.category = query.category.s

\* C22 witness: category and device both given and a rule returned, while a rule
\* of another category in the device's partition and a rule of the category in
\* the other partition reach the minimum score too and are left out
C22_Witness ==
    /\ RankQueried
    /\ Given(query.category) /\ Given(query.device_type)
    /\ Len(query.value) > 0
    /\ \E rule \in PartitionOf(query.device_type) :
           /\ rule.category # query.category.s
           /\ ScoreAtLeast(rule, query.user_symptoms, query.min_match_score)
    /\ \E rule \in Range(kb.all_rules) \ PartitionOf(query.device_type) :
           /\ rule.category = query.category.s
           /\ ScoreAtLeast(rule, query.user_symptoms, query.min_match_score)

\* position of rule in the candidate pool of the query made
PoolIndex(rule) == CHOOSE i \in 1 .. Len(QueryPool) : QueryPool[i] = rule

\* two entries have equal match score and equal rule confidence
TiedEntries(a, b) ==
    /\ a.match_score.num * b.match_score.den = b.match_score.num * a.match_score.den
    /\ a.rule.has_conf = b.rule.has_conf
    /\ a.rule.has_conf => a.rule.confidence = b.rule.confidence

\* C23: two entries find_matching_rules returns with equal match score and equal
\* rule confidence are in the order of their rules in the candidate pool, which is
\* the order of the catalog.
C23_StableTieBreak ==
    RankQueried =>
        \A i, j \in 1 .. Len(query.value) :
            (i < j /\ TiedEntries(query.value[i], query.value[j]))
                => /\ PoolIndex(query.value[i].rule) < PoolIndex(query.value[j].rule)
                   /\ CatalogIndex(query.value[i].rule) < CatalogIndex(query.value[j].rule)

\* C23 witness: two entries of equal score and equal confidence are returned, with
\* an entry of greater key ahead of them
C23_Witness ==
    /\ RankQueried
    /\ \E i, j \in 1 .. Len(query.value) :
           /\ 1 < i /\ i < j
           /\ TiedEntries(query.value[i], query.value[j])
           /\ query.value[i].rule.has_conf
           /\ KeyGreater(query.value[1], query.value[i])

\* the confidences forward_chain reported for the rules it fired, in firing order,
\* as the returned trace records them
FiredConfidences(r) ==
    LET fired == SelectSeq(r.inference_trace, LAMBDA t : t.kind = "Fired rule")
    IN [i \in 1 .. Len(fired) |-> fired[i].conf]

\* C24 as stated: in every successful diagnose result the primary diagnosis's
\* reported confidence is at least that of every alternative and of every fired
\* rule that was discarded, and the alternatives are in non-increasing order of
\* reported confidence.  (Refuted: the order is that of the match score, the
\* reported confidence is the score times the rule's confidence.)
C24_BestFirstByConfidence ==
    (JustReturned /\ result.value.success) =>
        LET r == result.value
            alts == r.alternative_diagnoses
            confs == FiredConfidences(r)
        IN /\ \A i \in 1 .. Len(alts) : FracGE(r.diagnosis.confidence, alts[i].confidence)
           /\ \A i \in 1 .. Len(confs) : FracGE(r.diagnosis.confidence, confs[i])
           /\ \A i, j \in 1 .. Len(alts) :
                  i < j => FracGE(alts[i].confidence, alts[j].confidence)

\* the facts satisfy a condition of rule on a key other than device
MatchesASymptom(rule, facts) ==
    \E i \in 1 .. Len(rule.conditions) :
        /\ rule.conditions[i].key # "device"
        /\ CondMatched(rule.conditions[i], facts)

\* C25 as stated: every rule diagnose fired has a matched condition other than
\* device, and so has the primary and every alternative diagnosis of a successful
\* result.  (Refuted: the device fact diagnose adds counts as a matched condition
\* like any other, and a rule of two conditions and confidence 0.95 fires on it
\* alone.)
C25_NoDiagnosisOnDeviceAlone ==
    JustReturned =>
        /\ \A i \in 1 .. Len(fired_rules) : MatchesASymptom(fired_rules[i], working_memory)
        /\ result.value.success =>
              /\ \E i \in 1 .. Len(result.value.diagnosis.explanation.conditions_text) :
                     result.value.diagnosis.explanation.conditions_text[i].key # "device"
              /\ \A a \in 1 .. Len(result.value.alternative_diagnoses) :
                     \E i \in 1 .. Len(result.value.alternative_diagnoses[a].matched_conditions) :
                         result.value.alternative_diagnoses[a].matched_conditions[i] # "device"

\* C26 as stated: a dict diagnose returned, its trace list included, is the same
\* after every later call on the engine: after add_fact, add_facts, forward_chain,
\* backward_chain and reset the held dict is what it was, and after another
\* diagnose with the same arguments the earlier dict is what it was.  (Refuted:
\* the dict's inference_trace is the engine's own list, to which add_fact,
\* forward_chain and backward_chain append.)
C26_ReturnedResultUnaltered ==
    [][JustReturned =>
          /\ (result'.outcome = "returned" /\ (last_call' = NoCall \/ ~result'.aliased))
                => result'.value = result.value
          /\ prev'.outcome = "returned" => prev'.value = result.value]_vars

\* C27 as stated: after diagnose(d, c, S), for every S, one with the key device
\* included, the working-memory fact device is d, the device the candidate pool
\* was filtered by.  (Refuted: add_facts(S) runs after add_fact("device", d) and
\* replaces the fact when S has the key.)
C27_DeviceFactIsDeviceFilter ==
    JustDiagnosed =>
        /\ "device" \in DOMAIN working_memory
        /\ working_memory["device"] = PyStr(last_call.device_type)

\* the rule a proving backward_chain call names in its trace
ProvingRule ==
    LET named == Examined[Len(Examined)].key
    IN CHOOSE rule \in Range(Supporting) : rule.has_id /\ rule.id = named

\* C28 as stated: backward_chain never returns proven = true through a supporting
\* rule whose conditions mapping is empty.  (Refuted: a rule without conditions
\* has no unsatisfied condition, so the loop takes all of them as satisfied.)
C28_EmptyRuleProvesNothing ==
    (Verified /\ ret.outcome = "returned" /\ ret.proven) =>
        /\ Examined # <<>>
        /\ Examined[Len(Examined)].kind = "Hypothesis PROVEN by rule"
        /\ ProvingRule.conditions # <<>>

\* the last message made the chatbot call the engine's diagnose
ChatDiagnosed == ret.op = "process_message" /\ ret.call.op = "diagnose"

\* C29: in every state of the chatbot current_symptom_index is at most the number
\* of symptom questions; diagnose is called only when every symptom question of
\* the predicted category for the selected device has its answer recorded (the
\* index equals the number of questions and the symptoms hold one answer per
\* question key, in the order asked, and are what diagnose is given); and when
\* the state is COMPLETE the diagnosis result is set.
C29_DiagnosisAfterAllQuestions ==
    /\ context.current_symptom_index <= Len(context.symptom_questions)
    /\ ChatDiagnosed =>
          /\ context.symptom_questions
                = get_symptoms_for_device_category(context.device_type.s,
                                                   context.predicted_category.s)
          /\ context.current_symptom_index = Len(context.symptom_questions)
          /\ Len(context.symptoms) = Len(context.symptom_questions)
          /\ \A i \in 1 .. Len(context.symptoms) :
                 context.symptoms[i].key = context.symptom_questions[i].symptom_key
          /\ ret.call.symptoms = context.symptoms
          /\ ret.call.device_type = context.device_type.s
          /\ ret.call.category = context.predicted_category.s
    /\ context.state = "complete" => context.diagnosis_result.set
    /\ context.diagnosis_result.set => context.state = "complete"

\* C29 witness: the fifth of five answers, a fuzzy no, made the chatbot diagnose,
\* and the conversation is complete with a rule-based result
C29_Witness ==
    /\ ChatDiagnosed
    /\ ret.user_input = "n"
    /\ Len(context.symptom_questions) = 5
    /\ context.symptoms[2].value = PyStr("no")
    /\ context.state = "complete"
    /\ context.diagnosis_result.set
    /\ context.diagnosis_result.value.success

\* the last message was a restart command
Restarted == ret.op = "process_message" /\ ret.user_input \in {"new", " Start Over "}

\* what the diagnose call of the last message does on a new engine
AfreshDiagnosis ==
    diagnose(NewEngine, ret.call.device_type, ret.call.category, ret.call.symptoms)

\* C30: after a restart command, in whatever conversation state it came, the
\* chatbot is in DEVICE_SELECTION with device type, predicted category, symptoms,
\* questions, question index and diagnosis result cleared and the engine's working
\* memory, trace and fired rules empty; and a diagnosis the chatbot produces holds
\* as facts the device and the answers to the questions of the conversation it
\* ends and nothing else, and is the one a new engine gives for them.
C30_RestartClearsSession ==
    /\ Restarted =>
          /\ context.state = "device_selection"
          /\ context.device_type = PyNone
          /\ context.predicted_category = PyNone
          /\ context.symptoms = <<>>
          /\ context.symptom_questions = <<>>
          /\ context.current_symptom_index = 0
          /\ ~context.diagnosis_result.set
          /\ working_memory = EmptyDict
          /\ inference_trace = <<>>
          /\ fired_rules = <<>>
    /\ ChatDiagnosed =>
          /\ working_memory = CallFacts(ret.call)
          /\ DOMAIN working_memory
                = {"device"} \cup {context.symptom_questions[i].symptom_key :
                                      i \in 1 .. Len(context.symptom_questions)}
          /\ Self = AfreshDiagnosis.engine
          /\ context.diagnosis_result.set
                => context.diagnosis_result.value = AfreshDiagnosis.value

\* C30 witness: the restart command, sent with blanks and capitals, came in a
\* complete conversation with five answers and left the context and the engine
\* cleared
C30_Witness ==
    /\ Restarted
    /\ ret.user_input = " Start Over "
    /\ ret.state = "complete"
    /\ ret.answers = 5
    /\ context.state = "device_selection"
    /\ context.symptoms = <<>>
    /\ working_memory = EmptyDict

=============================================================================
